---- MODULE Spec2Model ----
(***************************************************************************)
(* Turtle swarm optimizer (src/src/lib.rs): CubicBoundary, Turtle and      *)
(* Optimizer with its evaluate / update_velocities / update_positions      *)
(* cycle, over a reduced-precision binary floating-point arithmetic.       *)
(*                                                                         *)
(* f64 is modelled as an IEEE-754 binary format with Prec significand bits *)
(* (f64: 53), round-to-nearest-even, gradual underflow, +-infinity and NaN.*)
(* A finite value is the integer number of smallest subnormals it holds;   *)
(* INFINITY, -INFINITY and NAN are codes outside the finite range.         *)
(***************************************************************************)
EXTENDS Integers, Sequences, FiniteSets

\* ------------------------------------------------------------ bounds
\* Significand bits of the floating-point format.
Prec == 3
\* Largest number of coordinates (turtles * shape) of a constructed swarm.
MaxCells == 2
\* Cap on Optimizer.iterations: the loop is not entered once it is reached.
MaxIter == 40

\* ------------------------------------------------------------ f64
Max(a, b) == IF a >= b THEN a ELSE b

Min(a, b) == IF a <= b THEN a ELSE b

Abs(a) == IF a < 0 THEN -a ELSE a

Sign(a) == IF a < 0 THEN -1 ELSE 1

RECURSIVE BitLen(_)
\* Number of bits of a natural number (0 for 0).
BitLen(a) == IF a = 0 THEN 0 ELSE 1 + BitLen(a \div 2)

\* The value 1.0: 2^OneExp smallest subnormals (smallest normal is 2^(-2*Prec)).
OneExp == 3 * Prec - 1

One == 2 ^ OneExp

\* Exponent of the first value past the finite range: finite |x| < 2^(Prec+1).
InfExp == OneExp + Prec + 1

INFINITY == 2 ^ InfExp

NEG_INFINITY == -INFINITY

NAN == 2 * INFINITY

\* std::f64::EPSILON: the gap between 1.0 and the next float, 2^(1-Prec).
EPSILON == One \div (2 ^ (Prec - 1))

IsNan(a) == a = NAN

IsFinite(a) == a # NAN /\ a # INFINITY /\ a # NEG_INFINITY

\* Round the exact rational num/den (den > 0, in smallest subnormals) to the
\* nearest representable value, ties to even; overflow gives an infinity.
RoundRatio(num, den) ==
    LET a == Abs(num)
        k == Max(0, BitLen(a \div den) - Prec)
        e == den * (2 ^ k)
        q == a \div e
        r == a % e
        up == (2 * r > e) \/ (2 * r = e /\ q % 2 = 1)
        m == (IF up THEN q + 1 ELSE q) * (2 ^ k)
    IN  IF m >= INFINITY THEN Sign(num) * INFINITY ELSE Sign(num) * m

\* The finite values of the format between lo and hi (inclusive).
FiniteBetween(lo, hi) == {x \in lo..hi : RoundRatio(x, 1) = x}

FNeg(a) == IF IsNan(a) THEN NAN ELSE -a

\* IEEE addition.
FAdd(a, b) ==
    IF IsNan(a) \/ IsNan(b) THEN NAN
    ELSE IF ~IsFinite(a) /\ ~IsFinite(b) THEN (IF a = b THEN a ELSE NAN)
    ELSE IF ~IsFinite(a) THEN a
    ELSE IF ~IsFinite(b) THEN b
    ELSE RoundRatio(a + b, 1)

FSub(a, b) == FAdd(a, FNeg(b))

\* IEEE multiplication. The product of two finite values is a*b/One; a product
\* that is certainly past the finite range is not formed.
FMul(a, b) ==
    IF IsNan(a) \/ IsNan(b) THEN NAN
    ELSE IF ~IsFinite(a) \/ ~IsFinite(b)
         THEN (IF a = 0 \/ b = 0 THEN NAN ELSE Sign(a) * Sign(b) * INFINITY)
    ELSE IF BitLen(Abs(a)) + BitLen(Abs(b)) - 2 >= OneExp + InfExp
         THEN Sign(a) * Sign(b) * INFINITY
    ELSE RoundRatio(a * b, One)

\* IEEE comparisons: false whenever an operand is NaN.
FLt(a, b) == ~IsNan(a) /\ ~IsNan(b) /\ a < b

FGt(a, b) == FLt(b, a)

FLe(a, b) == ~IsNan(a) /\ ~IsNan(b) /\ a <= b

\* ------------------------------------------------------------ vectors
\* Array1::zeros(n) and c * Array1::ones(n).
Zeros(n) == [i \in 1..n |-> 0]

Filled(n, c) == [i \in 1..n |-> FMul(c, One)]

\* Elementwise a + b, a - b and c * a of ndarray.
VAdd(a, b) == [i \in 1..Len(a) |-> FAdd(a[i], b[i])]

VSub(a, b) == [i \in 1..Len(a) |-> FSub(a[i], b[i])]

VScale(c, a) == [i \in 1..Len(a) |-> FMul(c, a[i])]

RECURSIVE SumFrom(_, _, _)
\* Array1::sum: the components added left to right, starting from 0.0.
SumFrom(a, i, acc) ==
    IF i > Len(a) THEN acc ELSE SumFrom(a, i + 1, FAdd(acc, a[i]))

VSum(a) == SumFrom(a, 1, 0)

\* ------------------------------------------------------------ constants
\* Turtles move slowly: TURTLE_VELOCITY is machine epsilon.
TURTLE_VELOCITY == EPSILON

\* The goal of tests::sufficient_testing, 1e-2 as a float.
TestGoal == RoundRatio(One, 100)

\* ------------------------------------------------------------ inputs
\* Objective functions a caller may pass (&dyn Fn(&Array1<f64>) -> f64):
\* the test's parabola, a linear one whose minimum is on the boundary, and
\* one that is never a number.
Objectives == {"parabola", "sum", "nan"}

\* What coordinate c adds to the objective's sum.
ObjectiveTerm(f, c) ==
    CASE f = "parabola" -> FMul(c, c)
      [] f = "sum" -> c
      [] OTHER -> NAN

\* parabola of the test is (x * x).sum(); the others are sums likewise.
ObjectiveValue(f, x) == VSum([i \in 1..Len(x) |-> ObjectiveTerm(f, x[i])])

\* Goals a caller may pass: the test's, one no parabola value meets, and the
\* two a comparison treats specially.
Goals == {TestGoal, -One, INFINITY, NAN}

\* (lower, upper) pairs a caller may pass to CubicBoundary::new: in order,
\* reversed, equal, and not a number.
BoundaryInputs ==
    {<<-One, One>>, <<One, One \div 2>>, <<One \div 2, One \div 2>>, <<NAN, One>>}

\* (turtles, shape) a caller may pass, shape >= 1.
Sizes == {s \in (0..MaxCells) \X (1..MaxCells) : s[1] * s[2] <= MaxCells}

\* Positions Uniform::new(low, high) may draw: floats of [low, high), here
\* the multiples of step among them.
Samples(low, high, step) ==
    {x \in FiniteBetween(low, high) : x < high /\ x % step = 0}

\* The grid of the draws: halves, and eighths for the test's swarm.
Half == One \div 2

Eighth == One \div 8

\* Uniform::new panics unless low < high and high - low is finite.
UniformNewOk(low, high) == FLt(low, high) /\ IsFinite(FSub(high, low))

\* ------------------------------------------------------------ program
\* Mutant: the bounds are never swapped.
CubicBoundary_new_NoSwap(shape, lower, upper) ==
    [lower |-> lower, upper |-> upper, shape |-> shape]

CubicBoundary_new(shape, lower, upper) ==
    IF FGt(lower, upper)
    THEN [lower |-> upper, upper |-> lower, shape |-> shape]
    ELSE [lower |-> lower, upper |-> upper, shape |-> shape]

\* Mutant: a new turtle is at rest.
Turtle_new_AtRest(b, position) ==
    [position |-> position, velocity |-> Zeros(b.shape),
     best_score |-> INFINITY, best_position |-> Zeros(b.shape)]

\* Mutant: a new turtle's best score is zero.
Turtle_new_BestZero(b, position) ==
    [position |-> position, velocity |-> Filled(b.shape, EPSILON),
     best_score |-> 0, best_position |-> Zeros(b.shape)]

\* Mutant: the first best position is where the turtle stands.
Turtle_new_BestAtPosition(b, position) ==
    [position |-> position,
     velocity |-> Filled(b.shape, EPSILON),
     best_score |-> INFINITY,
     best_position |-> position]

\* Turtle::new with the drawn position.
Turtle_new(b, position) ==
    [position |-> position,
     velocity |-> Filled(b.shape, EPSILON),
     best_score |-> INFINITY,
     best_position |-> Zeros(b.shape)]

\* Mutant: any different score replaces the personal best.
ImprovesPersonal_Ne(score, turtle) == score # turtle.best_score

\* if score < turtle.best_score
ImprovesPersonal(score, turtle) == FLt(score, turtle.best_score)

\* Mutant: an equal score replaces the global best.
ImprovesGlobal_Le(score, global_best_score) == FLe(score, global_best_score)

\* Mutant: the comparison with the global best is inverted.
ImprovesGlobal_Gt(score, global_best_score) == FGt(score, global_best_score)

\* Mutant: the comparison with the global best is left out.
ImprovesGlobal_Always(score, global_best_score) == TRUE

\* if score < self.best_score
ImprovesGlobal(score, global_best_score) == FLt(score, global_best_score)

\* Mutant: the personal best is recorded only with a new global best.
EvaluateTurtle_GlobalGated(o, i, f) ==
    LET turtle == o.turtles[i]
        score == ObjectiveValue(f, turtle.position)
    IN  IF ImprovesPersonal(score, turtle) /\ ImprovesGlobal(score, o.best_score)
        THEN [o EXCEPT !.turtles[i].best_score = score,
                       !.turtles[i].best_position = turtle.position,
                       !.best_score = score,
                       !.best_position = turtle.position]
        ELSE o

\* One turtle's step of evaluate on the optimizer o = [turtles, best_score,
\* best_position]: lines 97-105.
EvaluateTurtle(o, i, f) ==
    LET turtle == o.turtles[i]
        score == ObjectiveValue(f, turtle.position)
    IN  IF ImprovesPersonal(score, turtle)
        THEN LET t2 == [turtle EXCEPT !.best_score = score,
                                      !.best_position = turtle.position]
                 o2 == [o EXCEPT !.turtles[i] = t2]
             IN  IF ImprovesGlobal(score, o.best_score)
                 THEN [o2 EXCEPT !.best_score = score,
                                 !.best_position = turtle.position]
                 ELSE o2
        ELSE o

RECURSIVE EvaluateFrom(_, _, _)
\* The for loop of evaluate from turtle i on.
EvaluateFrom(o, i, f) ==
    IF i > Len(o.turtles) THEN o
    ELSE EvaluateFrom(EvaluateTurtle(o, i, f), i + 1, f)

\* Mutant: the pull towards the global best is left out.
NewVelocity_NoSocial(turtle, global_best_position) ==
    VAdd(turtle.velocity,
         VScale(TURTLE_VELOCITY, VSub(turtle.best_position, turtle.position)))

\* Mutant: the velocity is left as it is.
NewVelocity_Kept(turtle, global_best_position) == turtle.velocity

\* One turtle's new velocity: lines 113-115, added left to right.
NewVelocity(turtle, global_best_position) ==
    VAdd(VAdd(turtle.velocity,
              VScale(TURTLE_VELOCITY, VSub(turtle.best_position, turtle.position))),
         VScale(TURTLE_VELOCITY, VSub(global_best_position, turtle.position)))

\* Mutant: a coordinate that passes a bound is reflected back inside.
Clamp_Reflecting(b, x) ==
    IF FGt(x, b.upper) THEN FSub(b.upper, FSub(x, b.upper))
    ELSE IF FLt(x, b.lower) THEN FAdd(b.lower, FSub(b.lower, x))
    ELSE x

\* Mutant: the lower bound is not enforced.
Clamp_UpperOnly(b, x) == IF FGt(x, b.upper) THEN b.upper ELSE x

\* The clamp of one coordinate: lines 123-127.
Clamp(b, x) ==
    IF FGt(x, b.upper) THEN b.upper
    ELSE IF FLt(x, b.lower) THEN b.lower
    ELSE x

\* One turtle's new position: lines 121-128.
NewPosition(b, turtle) ==
    LET moved == VAdd(turtle.position, turtle.velocity)
    IN  [i \in 1..Len(moved) |-> Clamp(b, moved[i])]

\* Mutant: the position phase clamps the velocity as well.
MovedTurtle_VelocityClamped(b, turtle) ==
    [turtle EXCEPT !.position = NewPosition(b, turtle),
                   !.velocity = [i \in 1..Len(turtle.velocity) |->
                                   Clamp(b, turtle.velocity[i])]]

\* update_positions for one turtle: lines 121-128 assign its position only.
MovedTurtle(b, turtle) == [turtle EXCEPT !.position = NewPosition(b, turtle)]

\* Mutant: the counter advances by two.
Incremented_Twice(n) == n + 2

\* self.iterations += 1
Incremented(n) == n + 1

\* Mutants: the loop condition is inverted.
LoopCondition_Lt(score, g) == FLt(score, g)

LoopCondition_Le(score, g) == FLe(score, g)

\* Mutant: the loop goes on at a best score equal to the goal.
LoopCondition_Ge(score, g) == FLe(g, score)

\* The loop condition of optimize.
LoopCondition(score, g) == FGt(score, g)

\* Optimizer::new with the drawn positions.
Optimizer_new(drawn, b, f, g) ==
    [turtles |-> [i \in 1..Len(drawn) |-> Turtle_new(b, drawn[i])],
     boundaries |-> b,
     iterations |-> 0,
     best_score |-> INFINITY,
     best_position |-> Zeros(b.shape),
     objective_function |-> f,
     goal |-> g]

VARIABLES
    pc,                  \* where the caller / optimize() stands
    args,                \* what the caller passes to the constructors
    boundaries,          \* Optimizer.boundaries (the CubicBoundary)
    turtles,             \* Optimizer.turtles
    iterations,          \* Optimizer.iterations
    best_score,          \* Optimizer.best_score
    best_position,       \* Optimizer.best_position
    objective_function,  \* Optimizer.objective_function
    goal,                \* Optimizer.goal
    evaluations          \* history: how many times evaluate() has run

vars == <<pc, args, boundaries, turtles, iterations, best_score, best_position,
          objective_function, goal, evaluations>>

optimizer == <<turtles, iterations, best_score, best_position, objective_function, goal>>

\* Nothing is constructed yet: the caller holds the arguments.
Start(inputs) ==
    /\ pc = "start"
    /\ args \in inputs
    /\ boundaries = << >>
    /\ turtles = << >>
    /\ iterations = 0
    /\ best_score = INFINITY
    /\ best_position = << >>
    /\ objective_function = args.objective
    /\ goal = args.goal
    /\ evaluations = 0

Init ==
    Start([size : Sizes, bounds : BoundaryInputs, objective : Objectives,
           goal : Goals, step : {Half}])

\* tests::sufficient_testing: a parabola on [-1, 1], one dimension, goal 1e-2
\* (the test's swarm has 33 turtles).
InitTest ==
    Start([size : {s \in Sizes : s[1] >= 1 /\ s[2] = 1}, bounds : {<<-One, One>>},
           objective : {"parabola"}, goal : {TestGoal}, step : {Eighth}])

\* CubicBoundary::new(shape, lower, upper).
CubicBoundaryNew ==
    /\ pc = "start"
    /\ boundaries' = CubicBoundary_new(args.size[2], args.bounds[1], args.bounds[2])
    /\ pc' = "boundary"
    /\ UNCHANGED <<args, optimizer, evaluations>>

\* Optimizer::new(turtles, boundaries, objective_function, goal): every turtle
\* draws its position; Uniform::new panics on an empty or unbounded range.
OptimizerNew ==
    /\ pc = "boundary"
    /\ IF args.size[1] > 0 /\ ~UniformNewOk(boundaries.lower, boundaries.upper)
       THEN /\ pc' = "panicked"
            /\ UNCHANGED <<args, boundaries, optimizer, evaluations>>
       ELSE /\ \E drawn \in [1..args.size[1] ->
                              [1..boundaries.shape ->
                                 Samples(boundaries.lower, boundaries.upper, args.step)]] :
                 LET o == Optimizer_new(drawn, boundaries, args.objective, args.goal)
                 IN  /\ turtles' = o.turtles
                     /\ boundaries' = o.boundaries
                     /\ iterations' = o.iterations
                     /\ best_score' = o.best_score
                     /\ best_position' = o.best_position
                     /\ objective_function' = o.objective_function
                     /\ goal' = o.goal
            /\ pc' = "constructed"
            /\ UNCHANGED <<args, evaluations>>

\* The caller calls optimize(): on the new optimizer, again after it returned,
\* or as tests::sufficient_testing does after its own calls of the phases.
Optimize ==
    /\ pc \in {"constructed", "returned", "velocities_updated"}
    /\ pc' = "while"
    /\ UNCHANGED <<args, boundaries, optimizer, evaluations>>

\* while self.best_score > self.goal
LoopTest ==
    /\ pc = "while"
    /\ IF LoopCondition(best_score, goal)
       THEN iterations < MaxIter /\ pc' = "evaluate"
       ELSE pc' = "returned"
    /\ UNCHANGED <<args, boundaries, optimizer, evaluations>>

\* fn evaluate(&mut self)
evaluate ==
    /\ LET o == EvaluateFrom([turtles |-> turtles, best_score |-> best_score,
                              best_position |-> best_position], 1, objective_function)
       IN  /\ turtles' = o.turtles
           /\ best_score' = o.best_score
           /\ best_position' = o.best_position
    /\ evaluations' = evaluations + 1
    /\ UNCHANGED <<args, boundaries, iterations, objective_function, goal>>

\* fn update_velocities(&mut self)
update_velocities ==
    /\ turtles' = [i \in 1..Len(turtles) |->
                     [turtles[i] EXCEPT !.velocity = NewVelocity(turtles[i], best_position)]]
    /\ UNCHANGED <<args, boundaries, iterations, best_score, best_position,
                   objective_function, goal, evaluations>>

\* fn update_positions(&mut self)
update_positions ==
    /\ turtles' = [i \in 1..Len(turtles) |-> MovedTurtle(boundaries, turtles[i])]
    /\ UNCHANGED <<args, boundaries, iterations, best_score, best_position,
                   objective_function, goal, evaluations>>

\* self.evaluate() in the loop of optimize()
Evaluate ==
    /\ pc = "evaluate"
    /\ evaluate
    /\ pc' = "update_velocities"

\* self.update_velocities() in the loop of optimize()
UpdateVelocities ==
    /\ pc = "update_velocities"
    /\ update_velocities
    /\ pc' = "update_positions"

\* self.update_positions() in the loop of optimize()
UpdatePositions ==
    /\ pc = "update_positions"
    /\ update_positions
    /\ pc' = "increment"

\* self.iterations += 1
Increment ==
    /\ pc = "increment"
    /\ iterations' = Incremented(iterations)
    /\ pc' = "while"
    /\ UNCHANGED <<args, boundaries, turtles, best_score, best_position,
                   objective_function, goal, evaluations>>

\* tests::sufficient_testing: optimizer.evaluate() on the new optimizer
TestEvaluate ==
    /\ pc = "constructed"
    /\ evaluate
    /\ pc' = "evaluated"

\* tests::sufficient_testing: optimizer.update_velocities() after its evaluate()
TestUpdateVelocities ==
    /\ pc = "evaluated"
    /\ update_velocities
    /\ pc' = "velocities_updated"

Next ==
    \/ CubicBoundaryNew
    \/ OptimizerNew
    \/ Optimize
    \/ LoopTest
    \/ Evaluate
    \/ UpdateVelocities
    \/ UpdatePositions
    \/ Increment

\* The crate's own test calls the private phases before optimize().
NextInTest ==
    \/ Next
    \/ TestEvaluate
    \/ TestUpdateVelocities

Spec == Init /\ [][Next]_vars

SpecTest == InitTest /\ [][Next]_vars

SpecInTest == Init /\ [][NextInTest]_vars

\* ------------------------------------------------------------ properties
\* The optimizer exists: Optimizer::new returned.
Constructed == pc \notin {"start", "boundary", "panicked"}

InBounds(b, x) == FLe(b.lower, x) /\ FLe(x, b.upper)

\* Every coordinate of a vector is inside the boundary.
Inside(b, x) == \A d \in 1..Len(x) : InBounds(b, x[d])

\* C1 (clamp invariant): from construction on, at every step of every
\* iteration, every coordinate of every turtle's position is in [lower, upper].
C1_ClampInvariant ==
    Constructed => \A i \in 1..Len(turtles) : Inside(boundaries, turtles[i].position)

\* A turtle was clamped to the lower bound: its velocity is below -(upper - lower),
\* so position + velocity was below lower whatever the position was.
C1_Witness ==
    /\ pc = "increment"
    /\ \E i \in 1..Len(turtles) : \E d \in 1..boundaries.shape :
          /\ turtles[i].position[d] = boundaries.lower
          /\ FLt(turtles[i].velocity[d], FSub(boundaries.lower, boundaries.upper))

\* C2 as claimed: whenever optimize() has returned, best_score <= goal.
C2_ReturnsOnlyAtGoal == pc = "returned" => FLe(best_score, goal)

\* C2 (amended): whenever optimize() has returned, best_score > goal is false,
\* and best_score <= goal unless the goal is NaN.
C2_ReturnsOnlyWhenNotAboveGoal ==
    pc = "returned" =>
        /\ ~FGt(best_score, goal)
        /\ ~IsNan(goal) => FLe(best_score, goal)

\* optimize() returned after at least one iteration, the goal met.
C2_Witness == pc = "returned" /\ iterations >= 1 /\ FLe(best_score, goal)

RECURSIVE MinBestFrom(_, _, _)
\* The least best_score of turtles i.., or acc when that is smaller.
MinBestFrom(ts, i, acc) ==
    IF i > Len(ts) THEN acc
    ELSE MinBestFrom(ts, i + 1, IF FLt(ts[i].best_score, acc) THEN ts[i].best_score ELSE acc)

\* C4 (global best): at every step from construction on, best_score is the
\* minimum of the turtles' best_score (infinity for no turtle), so it is at
\* most every turtle's.
C4_GlobalBestIsMin ==
    Constructed =>
        /\ best_score = MinBestFrom(turtles, 1, INFINITY)
        /\ \A i \in 1..Len(turtles) : FLe(best_score, turtles[i].best_score)

\* After an evaluate, two turtles hold different finite personal bests.
C4_Witness ==
    /\ pc = "update_velocities"
    /\ Len(turtles) = 2
    /\ FLt(turtles[1].best_score, turtles[2].best_score)
    /\ FLt(turtles[2].best_score, INFINITY)
    /\ iterations >= 1

\* C5 (monotonic improvement): no step increases best_score.
C5_GlobalBestNeverIncreases == [][FLe(best_score', best_score)]_vars

\* best_score was lowered by an evaluate after the first: the best position is
\* off the grid of the initial draws.
C5_Witness ==
    /\ Constructed
    /\ FLt(best_score, INFINITY)
    /\ \E d \in 1..Len(best_position) : best_position[d] % args.step # 0

\* C6 (personal-best monotonicity): no step increases a turtle's best_score;
\* it changes only in evaluate, and then to a strictly smaller value.
C6_PersonalBestNeverIncreases ==
    [][Len(turtles') = Len(turtles) =>
         \A i \in 1..Len(turtles) :
            /\ FLe(turtles'[i].best_score, turtles[i].best_score)
            /\ turtles'[i].best_score # turtles[i].best_score =>
                  /\ pc = "evaluate"
                  /\ FLt(turtles'[i].best_score, turtles[i].best_score)]_vars

\* A turtle that does not hold the global best lowered its personal best in
\* an evaluate after the first.
C6_Witness ==
    /\ Constructed
    /\ \E i \in 1..Len(turtles) :
          /\ FLt(turtles[i].best_score, INFINITY)
          /\ FLt(best_score, turtles[i].best_score)
          /\ \E d \in 1..boundaries.shape : turtles[i].best_position[d] % args.step # 0

\* The parts of C7 that do not depend on the order of the result.
BoundaryAsGiven ==
    LET lower == args.bounds[1]
        upper == args.bounds[2]
    IN  /\ boundaries.shape = args.size[2]
        /\ FGt(lower, upper) => boundaries.lower = upper /\ boundaries.upper = lower
        /\ ~FGt(lower, upper) => boundaries.lower = lower /\ boundaries.upper = upper

\* C7 as claimed: for all inputs CubicBoundary::new succeeds and returns
\* lower <= upper, swapped when given lower > upper and kept otherwise, the
\* shape kept.
C7_BoundaryNormalization ==
    /\ pc = "start" => ENABLED CubicBoundaryNew
    /\ pc # "start" => BoundaryAsGiven /\ FLe(boundaries.lower, boundaries.upper)

\* C7 (amended): as C7, with lower <= upper in the result only when neither
\* input is NaN.
C7_BoundaryNormalizationButNan ==
    /\ pc = "start" => ENABLED CubicBoundaryNew
    /\ pc # "start" =>
          /\ BoundaryAsGiven
          /\ (~IsNan(args.bounds[1]) /\ ~IsNan(args.bounds[2])) =>
                FLe(boundaries.lower, boundaries.upper)

\* CubicBoundary::new was given lower > upper.
C7_Witness ==
    /\ pc = "boundary"
    /\ FGt(args.bounds[1], args.bounds[2])
    /\ boundaries.lower = args.bounds[2]

\* C8 as claimed: with shape >= 1 and lower <= upper (equal included),
\* constructing the turtles succeeds and every coordinate drawn is in
\* [lower, upper].
C8_InitialFeasibility ==
    (pc \notin {"start", "boundary"} /\ FLe(boundaries.lower, boundaries.upper)) =>
        /\ pc # "panicked"
        /\ pc = "constructed" =>
              \A i \in 1..Len(turtles) : Inside(boundaries, turtles[i].position)

RECURSIVE Achievable(_, _, _)
\* The objective's values over the positions of n coordinates inside b.
Achievable(f, b, n) ==
    LET terms == {ObjectiveTerm(f, c) : c \in FiniteBetween(b.lower, b.upper)}
    IN  IF n = 0 THEN {0}
        ELSE {FAdd(v, t) : v \in Achievable(f, b, n - 1), t \in terms}

\* The boundaries CubicBoundary::new makes of the inputs.
Boundaries ==
    {CubicBoundary_new(n, p[1], p[2]) : n \in 1..MaxCells, p \in BoundaryInputs}

\* Achievable, tabulated once per boundary and objective.
AchievableIn == [b \in Boundaries, f \in Objectives |-> Achievable(f, b, b.shape)]

\* The boundary holds positions and the objective is above the goal at all.
Unreachable ==
    /\ FLe(boundaries.lower, boundaries.upper)
    /\ \A v \in AchievableIn[boundaries, objective_function] : FGt(v, goal)

\* C9 (unreachable goal): when the objective is above the goal everywhere
\* inside the boundary, optimize() has never returned and every loop test
\* finds best_score > goal, so that optimize() goes on with the next full
\* iteration and iterations only grows (the model stops it at MaxIter).
C9_UnreachableGoalNeverReturns ==
    (Constructed /\ Unreachable) =>
        /\ pc # "returned"
        /\ pc = "while" => LoopCondition(best_score, goal)

\* A swarm with an unreachable goal has completed MaxIter iterations.
C9_Witness ==
    /\ pc = "while"
    /\ iterations = MaxIter
    /\ Len(turtles) >= 1
    /\ Unreachable

\* C10 (no evaluation yet): in the state Optimizer::new returns, every
\* best_score is infinity, iterations is 0 and every best_position is the
\* zero vector of length shape.
C10_FreshOptimizer ==
    pc = "constructed" =>
        /\ best_score = INFINITY
        /\ iterations = 0
        /\ best_position = Zeros(boundaries.shape)
        /\ Len(best_position) = args.size[2]
        /\ Len(turtles) = args.size[1]
        /\ \A i \in 1..Len(turtles) :
              /\ turtles[i].best_score = INFINITY
              /\ turtles[i].best_position = Zeros(boundaries.shape)

\* A swarm of two turtles was constructed.
C10_Witness == pc = "constructed" /\ Len(turtles) = 2 /\ boundaries.shape = 1

\* ---------------------------------------------------------------- C11
\* The first evaluate() on the new optimizer has just run: the test's own call
\* or the first pass of the loop of optimize().
FirstEvaluateDone == evaluations = 1 /\ pc \in {"evaluated", "update_velocities"}

\* The objective is finite where the turtles stand.
FiniteScores ==
    \A i \in 1..Len(turtles) :
        IsFinite(ObjectiveValue(objective_function, turtles[i].position))

\* C11: after the first evaluate on a new optimizer whose objective gives finite
\* values, every turtle's best_score is not +infinity and is the objective at
\* its position, and its best_position is its position.
C11_FirstEvaluateSetsEveryPersonalBest ==
    (FirstEvaluateDone /\ FiniteScores) =>
        \A i \in 1..Len(turtles) :
            /\ turtles[i].best_score # INFINITY
            /\ turtles[i].best_score =
                   ObjectiveValue(objective_function, turtles[i].position)
            /\ turtles[i].best_position = turtles[i].position

\* Two turtles, the second one worse than the first: it improves its personal
\* best without improving the global one.
C11_Witness ==
    /\ FirstEvaluateDone
    /\ FiniteScores
    /\ Len(turtles) = 2
    /\ FLt(best_score, turtles[2].best_score)
    /\ turtles[2].best_score # INFINITY

\* ---------------------------------------------------------------- C12
\* One evaluate() and then one update_velocities() have run on the new
\* optimizer: the test's own calls or the first pass of the loop.
FirstVelocitiesDone ==
    evaluations = 1 /\ pc \in {"velocities_updated", "update_positions"}

\* The test's `movement`: some turtle's velocity has a nonzero sum.
Movement == \E i \in 1..Len(turtles) : VSum(turtles[i].velocity) # 0

\* C12 as stated: with at least one turtle, after one evaluate and one velocity
\* update some turtle's velocity has a nonzero component sum.
C12_MovementAfterFirstUpdate ==
    (FirstVelocitiesDone /\ Len(turtles) >= 1) => Movement

\* C12 amended: the same, when the evaluate found a score below +infinity.
C12_MovementOnceScored ==
    (FirstVelocitiesDone /\ Len(turtles) >= 1 /\ FLt(best_score, INFINITY))
        => Movement

\* A scored swarm in which the holder of the global best is the only one whose
\* velocity sum is nonzero.
C12_Witness ==
    /\ FirstVelocitiesDone
    /\ Len(turtles) = 2
    /\ FLt(best_score, INFINITY)
    /\ \E i \in 1..2 :
          /\ VSum(turtles[i].velocity) # 0
          /\ VSum(turtles[3 - i].velocity) = 0

\* ---------------------------------------------------------------- C13
\* evaluate for one turtle with the global comparison taken out of the personal
\* one: lines 98-105 with the inner `if` moved after the outer block.
EvaluateTurtleUnnested(o, i, f) ==
    LET turtle == o.turtles[i]
        score == ObjectiveValue(f, turtle.position)
        o2 == IF ImprovesPersonal(score, turtle)
              THEN [o EXCEPT !.turtles[i].best_score = score,
                             !.turtles[i].best_position = turtle.position]
              ELSE o
    IN  IF ImprovesGlobal(score, o.best_score)
        THEN [o2 EXCEPT !.best_score = score, !.best_position = turtle.position]
        ELSE o2

RECURSIVE EvaluateFromUnnested(_, _, _)
EvaluateFromUnnested(o, i, f) ==
    IF i > Len(o.turtles) THEN o
    ELSE EvaluateFromUnnested(EvaluateTurtleUnnested(o, i, f), i + 1, f)

\* What evaluate() works on.
Swarm == [turtles |-> turtles, best_score |-> best_score, best_position |-> best_position]

\* C13: from every state of the optimizer, an evaluate phase with the global
\* comparison made unconditionally gives the same global best score, global
\* best position and personal bests as the nested one of the code.
C13_UnnestedEvaluateAgrees ==
    Constructed =>
        EvaluateFromUnnested(Swarm, 1, objective_function)
            = EvaluateFrom(Swarm, 1, objective_function)

\* An evaluate phase is about to start in which one turtle improves on the
\* global best and another one on its personal best only.
C13_Witness ==
    /\ pc = "evaluate"
    /\ iterations >= 1
    /\ \E i, j \in 1..Len(turtles) :
          LET si == ObjectiveValue(objective_function, turtles[i].position)
              sj == ObjectiveValue(objective_function, turtles[j].position)
          IN  /\ FLt(si, best_score)
              /\ FLt(sj, turtles[j].best_score)
              /\ ~FLt(sj, best_score)

\* ---------------------------------------------------------------- C14
\* The fields of every turtle, one at a time.
Positions(ts) == [i \in 1..Len(ts) |-> ts[i].position]
Velocities(ts) == [i \in 1..Len(ts) |-> ts[i].velocity]
PersonalBests(ts) ==
    [i \in 1..Len(ts) |-> <<ts[i].best_score, ts[i].best_position>>]

\* C14: within an iteration of optimize() the evaluate of all turtles comes
\* first and moves nothing, then every velocity is updated before any position
\* changes, and each new velocity is
\*   velocity + C * (best_position - position) + C * (global best_position - position)
\* with the one global best position the evaluate of that iteration left.
C14_PhaseOrder ==
    [][/\ pc = "evaluate" =>
            /\ pc' = "update_velocities"
            /\ Velocities(turtles') = Velocities(turtles)
            /\ Positions(turtles') = Positions(turtles)
       /\ pc = "update_velocities" =>
            /\ pc' = "update_positions"
            /\ best_position' = best_position
            /\ Positions(turtles') = Positions(turtles)
            /\ \A i \in 1..Len(turtles) : \A d \in 1..boundaries.shape :
                  turtles'[i].velocity[d] =
                      FAdd(FAdd(turtles[i].velocity[d],
                                FMul(EPSILON, FSub(turtles[i].best_position[d],
                                                   turtles[i].position[d]))),
                           FMul(EPSILON, FSub(best_position[d],
                                              turtles[i].position[d])))
       /\ pc = "update_positions" => pc' = "increment"
       /\ (Constructed /\ Positions(turtles') # Positions(turtles))
            => pc = "update_positions"
       /\ (Constructed /\ Velocities(turtles') # Velocities(turtles))
            => pc = "update_velocities"]_vars

\* Velocities have just been updated in a later iteration, for two turtles of
\* which one is pulled to a global best that is not its own.
C14_Witness ==
    /\ pc = "update_positions"
    /\ iterations >= 1
    /\ Len(turtles) = 2
    /\ turtles[1].velocity # turtles[2].velocity
    /\ \E i \in 1..2 : turtles[i].best_position # best_position

\* ---------------------------------------------------------------- C15
\* C15: the position phase sets each coordinate, by itself, to
\* position + velocity when that sum is within [lower, upper], to upper when
\* the sum is above upper and to lower when it is below lower.
C15_AdditiveThenSaturating ==
    [][pc = "update_positions" =>
         \A i \in 1..Len(turtles) : \A d \in 1..boundaries.shape :
            LET sum == FAdd(turtles[i].position[d], turtles[i].velocity[d])
                new == turtles'[i].position[d]
            IN  /\ InBounds(boundaries, sum) => new = sum
                /\ FGt(sum, boundaries.upper) => new = boundaries.upper
                /\ FLt(sum, boundaries.lower) => new = boundaries.lower]_vars

\* The position phase has moved a turtle of two dimensions: one coordinate was
\* stopped at the upper bound and the other one is strictly inside.
C15_Witness ==
    /\ pc = "increment"
    /\ boundaries.shape = 2
    /\ \E i \in 1..Len(turtles) : \E d \in 1..2 :
          /\ turtles[i].position[d] = boundaries.upper
          /\ FGt(turtles[i].velocity[d], 0)
          /\ FLt(boundaries.lower, turtles[i].position[3 - d])
          /\ FLt(turtles[i].position[3 - d], boundaries.upper)

\* ---------------------------------------------------------------- C16
\* C16: the position phase changes positions only, the velocity phase changes
\* velocities only, the evaluate phase changes no position and no velocity, and
\* no phase changes the boundary, the goal or the number of turtles.
C16_Frames ==
    [][/\ pc = "update_positions" =>
            /\ Velocities(turtles') = Velocities(turtles)
            /\ PersonalBests(turtles') = PersonalBests(turtles)
            /\ <<best_score, best_position, iterations>>' =
                   <<best_score, best_position, iterations>>
       /\ pc = "update_velocities" =>
            /\ Positions(turtles') = Positions(turtles)
            /\ PersonalBests(turtles') = PersonalBests(turtles)
            /\ <<best_score, best_position, iterations>>' =
                   <<best_score, best_position, iterations>>
       /\ pc = "evaluate" =>
            /\ Positions(turtles') = Positions(turtles)
            /\ Velocities(turtles') = Velocities(turtles)
            /\ iterations' = iterations
       /\ pc \in {"evaluate", "update_velocities", "update_positions"} =>
            /\ boundaries' = boundaries
            /\ goal' = goal
            /\ Len(turtles') = Len(turtles)]_vars

\* The position phase has stopped a turtle at a bound and left it a velocity
\* that is itself outside [lower, upper].
C16_Witness ==
    /\ pc = "increment"
    /\ \E i \in 1..Len(turtles) : \E d \in 1..boundaries.shape :
          /\ turtles[i].position[d] \in {boundaries.lower, boundaries.upper}
          /\ ~InBounds(boundaries, turtles[i].velocity[d])

\* ---------------------------------------------------------------- C17
\* The score evaluate() computes for turtle i.
Score(i) == ObjectiveValue(objective_function, turtles[i].position)

\* The turtles whose score is below the global best the phase starts with.
Improvers == {i \in 1..Len(turtles) : FLt(Score(i), best_score)}

\* The first turtle, in the order of the swarm, with the least score.
FirstBest ==
    CHOOSE i \in Improvers :
        /\ \A j \in Improvers : FLe(Score(i), Score(j))
        /\ \A j \in Improvers : (j < i) => FLt(Score(i), Score(j))

\* C17: in an evaluate phase a score that is not strictly below a turtle's best
\* leaves that best alone, a phase without a score strictly below the global
\* best leaves the global best alone, and otherwise the global best becomes the
\* least score at the position of the first turtle that has it.
C17_StrictAndFirstWins ==
    [][pc = "evaluate" =>
         /\ \A i \in 1..Len(turtles) :
               ~FLt(Score(i), turtles[i].best_score) =>
                   PersonalBests(turtles')[i] = PersonalBests(turtles)[i]
         /\ Improvers = {} =>
               <<best_score, best_position>>' = <<best_score, best_position>>
         /\ Improvers # {} =>
               /\ best_score' = Score(FirstBest)
               /\ best_position' = turtles[FirstBest].position]_vars

\* The first evaluate phase has found the same least score at two different
\* positions, and the global best position is the first turtle's.
C17_Witness ==
    /\ pc = "update_velocities"
    /\ evaluations = 1
    /\ Len(turtles) = 2
    /\ turtles[1].position # turtles[2].position
    /\ turtles[1].best_score = turtles[2].best_score
    /\ best_score = turtles[1].best_score
    /\ FLt(best_score, INFINITY)
    /\ best_position = turtles[1].position
    /\ best_position # turtles[2].best_position

\* ---------------------------------------------------------------- C18
\* C18: in every state of the optimizer, a turtle's finite best_score is the
\* objective at its best_position, which is inside the boundary; a finite
\* global best_score is the objective at the global best_position, which is
\* inside the boundary and is the best_position of a turtle whose best_score is
\* the global one.
C18_BestPositionsConsistent ==
    Constructed =>
        /\ \A i \in 1..Len(turtles) :
              IsFinite(turtles[i].best_score) =>
                  /\ Inside(boundaries, turtles[i].best_position)
                  /\ ObjectiveValue(objective_function, turtles[i].best_position)
                         = turtles[i].best_score
        /\ IsFinite(best_score) =>
              /\ Inside(boundaries, best_position)
              /\ ObjectiveValue(objective_function, best_position) = best_score
              /\ \E i \in 1..Len(turtles) :
                    /\ turtles[i].best_position = best_position
                    /\ turtles[i].best_score = best_score

\* After some iterations the turtle that holds the global best has moved away
\* from it, and the other turtle's best is a different, finite one.
C18_Witness ==
    /\ pc = "while"
    /\ iterations >= 2
    /\ Len(turtles) = 2
    /\ IsFinite(best_score)
    /\ \E i \in 1..2 :
          /\ turtles[i].best_position = best_position
          /\ turtles[i].position # best_position
          /\ IsFinite(turtles[3 - i].best_score)
          /\ turtles[3 - i].best_score # best_score

\* ---------------------------------------------------------------- C19
\* What optimize() may change.
Swarming == <<turtles, iterations, best_score, best_position, evaluations>>

\* C19: optimize() called with best_score <= goal returns at its first test of
\* the loop condition, with no evaluate() and with turtles, global best and
\* iterations as they were; where it has returned the condition is false, so
\* that a second call does the same.
C19_OptimizeAtGoalIsNoOp ==
    [][/\ (pc \in {"constructed", "returned", "velocities_updated"}
            /\ pc' = "while") =>
               Swarming' = Swarming
       /\ (pc = "while" /\ FLe(best_score, goal)) =>
               /\ pc' = "returned"
               /\ Swarming' = Swarming
       /\ pc = "returned" => ~LoopCondition(best_score, goal)]_vars

\* optimize() has returned without an iteration, after the evaluate() of the
\* test had met the goal.
C19_Witness ==
    /\ pc = "returned"
    /\ iterations = 0
    /\ evaluations = 1
    /\ IsFinite(best_score)
    /\ FLe(best_score, goal)

\* ---------------------------------------------------------------- C20
\* C20: the goal is tested between whole cycles only.  The evaluate that meets
\* the goal is still followed by the velocity phase, the position phase and
\* the increment; optimize() returns from the loop test only; iterations grows
\* by one, at the end of a cycle only; and between cycles it is the number of
\* evaluate phases run (optimize() being the only caller).
C20_GoalTestedBetweenCycles ==
    [][/\ pc = "evaluate" => pc' = "update_velocities"
       /\ pc = "update_velocities" => pc' = "update_positions"
       /\ pc = "update_positions" => pc' = "increment"
       /\ pc = "increment" => (pc' = "while" /\ iterations' = iterations + 1)
       /\ iterations' # iterations => pc = "increment"
       /\ pc' = "returned" => pc = "while"
       /\ pc' \in {"while", "returned"} => iterations' = evaluations'
       /\ pc' \in {"update_velocities", "update_positions", "increment"} =>
              evaluations' = iterations' + 1]_vars

\* A later evaluate has met the goal, and optimize() has since run the
\* velocity phase and the position phase and is about to count the cycle.
C20_Witness ==
    /\ pc = "increment"
    /\ iterations >= 1
    /\ evaluations = iterations + 1
    /\ IsFinite(best_score)
    /\ FLe(best_score, goal)

====
